---- MODULE Spec2Model ----
(***************************************************************************)
(* Model of groq/src/chat/message.rs: the CreateChatCompletion request     *)
(* value, its Default and new constructors, its with_* builder methods,    *)
(* the serde (de)serialization its derive attributes select, and the wire  *)
(* tags of the enums FinishReason, Role and ResponseKind.                  *)
(***************************************************************************)
EXTENDS Integers, Sequences, FiniteSets, TLC

VARIABLES req, hist, last, base, calls, pc, wire, back,
          epc, etype, evar, etag, eback

vars == <<req, hist, last, base, calls, pc, wire, back,
          epc, etype, evar, etag, eback>>

builderVars == <<req, hist, last, base, calls, pc, wire, back>>
enumVars == <<epc, etype, evar, etag, eback>>

\* Longest chain of with_* calls explored on one request value.
MaxCalls == 2

-----------------------------------------------------------------------------
(* Option<T>: None is the empty sequence, Some(v) the one-element sequence. *)

None == <<>>
Some(v) == <<v>>
IsSome(o) == Len(o) = 1
IsNone(o) == Len(o) = 0

-----------------------------------------------------------------------------
(* f32 values.  Finite values are counted in tenths; NaN and the two       *)
(* infinities are values of their own, as in IEEE 754.                     *)

F(n) == [cls |-> "fin", v |-> n]
NaN == [cls |-> "nan", v |-> 0]
PosInf == [cls |-> "inf", v |-> 1]
NegInf == [cls |-> "inf", v |-> -1]

IsFinite(a) == a.cls = "fin"

\* a < b on f32: false whenever an operand is NaN.
FLt(a, b) ==
    CASE a.cls = "nan" \/ b.cls = "nan" -> FALSE
      [] a.cls = "inf" /\ a.v = 1 -> FALSE
      [] a.cls = "inf" /\ a.v = -1 -> ~(b.cls = "inf" /\ b.v = -1)
      [] b.cls = "inf" -> b.v = 1
      [] OTHER -> a.v < b.v

\* a > b on f32.
FGt(a, b) == FLt(b, a)

\* a <= b on f32: false whenever an operand is NaN.
FLe(a, b) == FLt(a, b) \/ (a.cls # "nan" /\ a = b)

\* The literals of with_temperature and with_top_p.
Zero == F(0)
One == F(10)
Two == F(20)

-----------------------------------------------------------------------------
(* Argument values the builder is driven with.                             *)

TemperatureSamples == {NaN, NegInf, PosInf, F(-11), F(0), F(9), F(20), F(29)}
TopPSamples == {NaN, PosInf, F(-4), F(0), F(4), F(10), F(14)}
PenaltySamples == {NaN, F(-25), F(0), F(25)}
U8Samples == {0, 21, 255}
U32Samples == {0, 1, 5}
U64Samples == {0, 1000, 4096}
SeedSamples == {0, 42}
StringSamples == {"", "a"}

\* serde_json::Value samples.
JNull == [t |-> "null"]
JBool(b) == [t |-> "bool", v |-> b]
JUInt(n) == [t |-> "uint", v |-> n]
JFloat(x) == [t |-> "float", v |-> x]
JStr(s) == [t |-> "str", v |-> s]
JArr(a) == [t |-> "arr", v |-> a]
JObj(o) == [t |-> "obj", v |-> o]

\* logit_bias arguments: JSON null and two token-to-bias maps.
ValueSamples ==
    {JNull, JObj([k \in {"50256"} |-> JUInt(0)]),
            JObj([k \in {"50256"} |-> JUInt(100)])}

Models == {"Llama38B", "Llama370B"}

Roles == {"Assistant", "System", "User"}
ResponseKinds == {"Text", "JsonObject"}
FinishReasons == {"Stop", "Length", "ContentFilter", "ToolCalls"}

Msg(c, r, n) == [content |-> c, role |-> r, name |-> n]
MessagesSamples ==
    { <<>>,
      << Msg("hi", "System", None), Msg("yo", "User", Some("bob")) >> }

StreamOptionsSamples == { [include_usage |-> o] : o \in {None, Some(TRUE), Some(FALSE)} }
ResponseFormatSamples == { [kind |-> k] : k \in ResponseKinds }

-----------------------------------------------------------------------------
(* CreateChatCompletion                                                    *)

OptFields ==
    {"frequency_penalty", "logit_bias", "logprobs", "top_logprobs",
     "max_tokens", "n", "presence_penalty", "response_format", "seed",
     "service_tier", "stop", "stream", "stream_options", "temperature",
     "top_p", "parallel_tool_calls", "user"}

Fields == {"model", "messages"} \cup OptFields

DefaultMaxTokens == 1000

\* Default with streaming switched off instead of left unset.
DefaultStreamOff ==
    [ model |-> "Llama38B", max_tokens |-> Some(DefaultMaxTokens),
      messages |-> <<>>, n |-> None, seed |-> None, temperature |-> None,
      top_p |-> None, stream |-> Some(FALSE), stream_options |-> None,
      logit_bias |-> None, parallel_tool_calls |-> None, stop |-> None,
      user |-> None, logprobs |-> None, response_format |-> None,
      presence_penalty |-> None, top_logprobs |-> None,
      frequency_penalty |-> None, service_tier |-> None ]

Default ==
    [ model |-> "Llama38B",
      max_tokens |-> Some(DefaultMaxTokens),
      messages |-> <<>>,
      n |-> None,
      seed |-> None,
      temperature |-> None,
      top_p |-> None,
      stream |-> None,
      stream_options |-> None,
      logit_bias |-> None,
      parallel_tool_calls |-> None,
      stop |-> None,
      user |-> None,
      logprobs |-> None,
      response_format |-> None,
      presence_penalty |-> None,
      top_logprobs |-> None,
      frequency_penalty |-> None,
      service_tier |-> None ]

\* new() that fills every field but its two arguments with None, losing
\* the default max_tokens.
NewAllUnset(model, messages) ==
    [ [f \in Fields |-> None] EXCEPT !.model = model, !.messages = messages ]

New(model, messages) ==
    [Default EXCEPT !.model = model, !.messages = messages]

with_model(self, model) == [self EXCEPT !.model = model]

with_messages(self, messages) == [self EXCEPT !.messages = messages]

with_frequence_penalty(self, frequence_penalty) ==
    [self EXCEPT !.frequency_penalty = Some(frequence_penalty)]

with_logit_bias(self, logit_bias) ==
    [self EXCEPT !.logit_bias = Some(logit_bias)]

with_logprobs(self, logprobs) == [self EXCEPT !.logprobs = Some(logprobs)]

\* with_top_logprobs that caps its argument at the documented 20.
with_top_logprobs_capped(self, top_logprobs) ==
    [self EXCEPT !.top_logprobs =
        Some(IF top_logprobs > 20 THEN 20 ELSE top_logprobs)]

with_top_logprobs(self, top_logprobs) ==
    [self EXCEPT !.top_logprobs = Some(top_logprobs)]

with_max_tokens(self, max_tokens) ==
    [self EXCEPT !.max_tokens = Some(max_tokens)]

with_n(self, n) == [self EXCEPT !.n = Some(n)]

with_presence_penalty(self, presence_penalty) ==
    [self EXCEPT !.presence_penalty = Some(presence_penalty)]

with_response_format(self, response_format) ==
    [self EXCEPT !.response_format = Some(response_format)]

with_seed(self, seed) == [self EXCEPT !.seed = Some(seed)]

with_service_tier(self, service_tier) ==
    [self EXCEPT !.service_tier = Some(service_tier)]

with_stop(self, stop) == [self EXCEPT !.stop = Some(stop)]

\* with_stream that drops stream_options when streaming is switched off.
with_stream_dropping_options(self, stream) ==
    IF stream
    THEN [self EXCEPT !.stream = Some(stream)]
    ELSE [self EXCEPT !.stream = Some(stream), !.stream_options = None]

with_stream(self, stream) == [self EXCEPT !.stream = Some(stream)]

with_stream_options(self, stream_options) ==
    [self EXCEPT !.stream_options = Some(stream_options)]

\* with_temperature with the upper boundary of top_p.
with_temperature_upper_one(self, temperature) ==
    IF FLt(temperature, Zero)
    THEN [self EXCEPT !.temperature = Some(Zero)]
    ELSE IF FGt(temperature, One)
         THEN [self EXCEPT !.temperature = Some(One)]
         ELSE [self EXCEPT !.temperature = Some(temperature)]

with_temperature(self, temperature) ==
    IF FLt(temperature, Zero)
    THEN [self EXCEPT !.temperature = Some(Zero)]
    ELSE IF FGt(temperature, Two)
         THEN [self EXCEPT !.temperature = Some(Two)]
         ELSE [self EXCEPT !.temperature = Some(temperature)]

\* with_top_p with the upper boundary of temperature.
with_top_p_upper_two(self, top_p) ==
    IF FLt(top_p, Zero)
    THEN [self EXCEPT !.top_p = Some(Zero)]
    ELSE IF FGt(top_p, Two)
         THEN [self EXCEPT !.top_p = Some(Two)]
         ELSE [self EXCEPT !.top_p = Some(top_p)]

with_top_p(self, top_p) ==
    IF FLt(top_p, Zero)
    THEN [self EXCEPT !.top_p = Some(Zero)]
    ELSE IF FGt(top_p, One)
         THEN [self EXCEPT !.top_p = Some(One)]
         ELSE [self EXCEPT !.top_p = Some(top_p)]

with_parallel_tool_calls(self, parallel_tool_calls) ==
    [self EXCEPT !.parallel_tool_calls = Some(parallel_tool_calls)]

with_user(self, user) == [self EXCEPT !.user = Some(user)]

-----------------------------------------------------------------------------
(* Enum wire tags: #[serde(rename_all = ...)] applied to variant names.    *)
(* Identifiers and tags are sequences of characters.                       *)

UpperChars == <<"A", "B", "C", "D", "E", "F", "G", "H", "I", "J", "K", "L", "M", "N", "O", "P", "Q", "R", "S", "T", "U", "V", "W", "X", "Y", "Z">>
LowerChars == <<"a", "b", "c", "d", "e", "f", "g", "h", "i", "j", "k", "l", "m", "n", "o", "p", "q", "r", "s", "t", "u", "v", "w", "x", "y", "z">>

IsUpperChar(c) == \E i \in 1..Len(UpperChars) : UpperChars[i] = c
ToLowerChar(c) ==
    IF IsUpperChar(c)
    THEN LowerChars[CHOOSE i \in 1..Len(UpperChars) : UpperChars[i] = c]
    ELSE c
ToUpperChar(c) ==
    IF \E i \in 1..Len(LowerChars) : LowerChars[i] = c
    THEN UpperChars[CHOOSE i \in 1..Len(LowerChars) : LowerChars[i] = c]
    ELSE c

\* rename_all = "lowercase": the variant name in ASCII lower case.
LowerCase(name) == [i \in 1..Len(name) |-> ToLowerChar(name[i])]

\* rename_all = "snake_case": an underscore before every upper-case letter
\* but the first, and every letter in lower case.
RECURSIVE SnakeFrom(_, _)
SnakeFrom(name, i) ==
    IF i > Len(name) THEN <<>>
    ELSE (IF i > 1 /\ IsUpperChar(name[i]) THEN <<"_">> ELSE <<>>)
         \o <<ToLowerChar(name[i])>> \o SnakeFrom(name, i + 1)

\* snake_case without the underscores: plain lower case.
SnakeCaseNoUnderscore(name) == LowerCase(name)

SnakeCase(name) == SnakeFrom(name, 1)

\* The identifier of each variant, as written in the source.
VariantChars(v) ==
    CASE v = "Stop" -> <<"S", "t", "o", "p">>
      [] v = "Length" -> <<"L", "e", "n", "g", "t", "h">>
      [] v = "ContentFilter" -> <<"C", "o", "n", "t", "e", "n", "t", "F", "i", "l", "t", "e", "r">>
      [] v = "ToolCalls" -> <<"T", "o", "o", "l", "C", "a", "l", "l", "s">>
      [] v = "Assistant" -> <<"A", "s", "s", "i", "s", "t", "a", "n", "t">>
      [] v = "System" -> <<"S", "y", "s", "t", "e", "m">>
      [] v = "User" -> <<"U", "s", "e", "r">>
      [] v = "Text" -> <<"T", "e", "x", "t">>
      [] v = "JsonObject" -> <<"J", "s", "o", "n", "O", "b", "j", "e", "c", "t">>

EnumTypes == {"FinishReason", "Role", "ResponseKind"}

Variants(ty) ==
    CASE ty = "FinishReason" -> FinishReasons
      [] ty = "Role" -> Roles
      [] ty = "ResponseKind" -> ResponseKinds

RenameAll(ty, name) ==
    CASE ty = "FinishReason" -> SnakeCase(name)
      [] ty = "Role" -> LowerCase(name)
      [] ty = "ResponseKind" -> SnakeCase(name)

\* Serialize for a unit variant: its renamed identifier as a JSON string.
SerializeEnum(ty, v) == RenameAll(ty, VariantChars(v))

\* Deserialize for a unit variant: the variant whose tag this is, or the
\* unknown-variant error.
DeserializeEnum(ty, tag) ==
    IF \E v \in Variants(ty) : SerializeEnum(ty, v) = tag
    THEN CHOOSE v \in Variants(ty) : SerializeEnum(ty, v) = tag
    ELSE "Err"

-----------------------------------------------------------------------------
(* Serialize / Deserialize as derived for the request types, over          *)
(* serde_json.  A JSON object is a function from its keys to JSON values:  *)
(* a key that is not written is not in the domain.                         *)

\* crate::models::Model is defined outside this file: its wire identifiers
\* are taken to be fixed and pairwise distinct.
ModelTag(m) ==
    CASE m = "Llama38B" -> "llama3-8b-8192"
      [] m = "Llama370B" -> "llama3-70b-8192"

SerializeModel(m) == JStr(ModelTag(m))
DeserializeModel(j) == CHOOSE m \in Models : ModelTag(m) = j.v

\* serde_json writes a non-finite float as null.
SerializeF32(x) == IF IsFinite(x) THEN JFloat(x) ELSE JNull

\* Message: `name` carries skip_serializing_if = "Option::is_none".
SerializeMessage(m) ==
    LET keys == {"content", "role"} \cup (IF IsSome(m.name) THEN {"name"} ELSE {})
    IN  JObj([k \in keys |->
                CASE k = "content" -> JStr(m.content)
                  [] k = "role" -> JStr(SerializeEnum("Role", m.role))
                  [] k = "name" -> JStr(m.name[1])])

\* ResponseFormat: `kind` is renamed to "type".
SerializeResponseFormat(rf) ==
    JObj([k \in {"type"} |-> JStr(SerializeEnum("ResponseKind", rf.kind))])

\* StreamOptions: `include_usage` carries no skip attribute, so None is
\* written as null.
SerializeStreamOptions(so) ==
    JObj([k \in {"include_usage"} |->
            IF IsSome(so.include_usage) THEN JBool(so.include_usage[1]) ELSE JNull])

\* The fields of CreateChatCompletion that carry
\* skip_serializing_if = "Option::is_none".
SkipIfNone == OptFields

F32Fields == {"frequency_penalty", "presence_penalty", "temperature", "top_p"}
BoolFields == {"logprobs", "stream", "parallel_tool_calls"}
UIntFields == {"top_logprobs", "max_tokens", "n", "seed"}
StringFields == {"service_tier", "stop", "user"}

SerializeField(r, k) ==
    CASE k = "model" -> SerializeModel(r.model)
      [] k = "messages" ->
            JArr([i \in 1..Len(r.messages) |-> SerializeMessage(r.messages[i])])
      [] k \in OptFields /\ IsNone(r[k]) -> JNull
      [] k \in F32Fields -> SerializeF32(r[k][1])
      [] k \in BoolFields -> JBool(r[k][1])
      [] k \in UIntFields -> JUInt(r[k][1])
      [] k \in StringFields -> JStr(r[k][1])
      [] k = "logit_bias" -> r[k][1]
      [] k = "response_format" -> SerializeResponseFormat(r[k][1])
      [] k = "stream_options" -> SerializeStreamOptions(r[k][1])

SerializedKeys(r) == { k \in Fields : ~(k \in SkipIfNone /\ IsNone(r[k])) }

\* serde_json::to_value(&request): the top-level JSON object.
ToJson(r) == [k \in SerializedKeys(r) |-> SerializeField(r, k)]

Payload(j) == j.v
Self(j) == j

DeserializeResponseFormat(j) ==
    [ kind |-> DeserializeEnum("ResponseKind", j.v["type"].v) ]

\* The value of a present, non-null Option<T> field, by the type T.
DeserializeSome(ty, j) ==
    CASE ty = "Value" -> Self(j)
      [] ty = "ResponseFormat" -> DeserializeResponseFormat(j)
      [] ty = "StreamOptions" -> [ include_usage |->
              IF "include_usage" \notin DOMAIN j.v THEN None
              ELSE IF j.v["include_usage"].t = "null" THEN None
              ELSE Some(Payload(j.v["include_usage"])) ]
      [] OTHER -> Payload(j)

\* An Option<T> field: a missing key and null both give None.
DeserializeOption(o, k, ty) ==
    IF k \notin DOMAIN o THEN None
    ELSE IF o[k].t = "null" THEN None
    ELSE Some(DeserializeSome(ty, o[k]))

DeserializeMessage(j) ==
    [ content |-> j.v["content"].v,
      role |-> DeserializeEnum("Role", j.v["role"].v),
      name |-> DeserializeOption(j.v, "name", "String") ]

\* serde_json::from_value::<CreateChatCompletion>: `model` and `messages`
\* are required, every other field is an Option.
FromJson(w) ==
    IF ~({"model", "messages"} \subseteq DOMAIN w) THEN "Err"
    ELSE
    [ model |-> DeserializeModel(w["model"]),
      messages |-> [i \in 1..Len(w["messages"].v) |->
                        DeserializeMessage(w["messages"].v[i])],
      frequency_penalty |-> DeserializeOption(w, "frequency_penalty", "f32"),
      logit_bias |-> DeserializeOption(w, "logit_bias", "Value"),
      logprobs |-> DeserializeOption(w, "logprobs", "bool"),
      top_logprobs |-> DeserializeOption(w, "top_logprobs", "u8"),
      max_tokens |-> DeserializeOption(w, "max_tokens", "u64"),
      n |-> DeserializeOption(w, "n", "u32"),
      presence_penalty |-> DeserializeOption(w, "presence_penalty", "f32"),
      response_format |-> DeserializeOption(w, "response_format", "ResponseFormat"),
      seed |-> DeserializeOption(w, "seed", "u64"),
      service_tier |-> DeserializeOption(w, "service_tier", "String"),
      stop |-> DeserializeOption(w, "stop", "String"),
      stream |-> DeserializeOption(w, "stream", "bool"),
      stream_options |-> DeserializeOption(w, "stream_options", "StreamOptions"),
      temperature |-> DeserializeOption(w, "temperature", "f32"),
      top_p |-> DeserializeOption(w, "top_p", "f32"),
      parallel_tool_calls |-> DeserializeOption(w, "parallel_tool_calls", "bool"),
      user |-> DeserializeOption(w, "user", "String") ]

-----------------------------------------------------------------------------
(* State.                                                                  *)
(*   req    the request value being built (None before construction)       *)
(*   base   the value the constructor returned                             *)
(*   last   the most recent call and its argument                          *)
(*   hist   per field, the argument of the last with_* call for it         *)
(*   calls  number of with_* calls made on req                             *)
(*   pc     "init", "build", "sent" (serialized), "parsed" (read back)     *)
(*   wire   the serialized request; back  the value deserialized from it   *)
(*   epc, etype, evar, etag, eback   one enum value crossing the wire      *)

NoHist == [f \in Fields |-> None]

Init ==
    /\ req = None
    /\ base = None
    /\ last = [op |-> "none"]
    /\ hist = NoHist
    /\ calls = 0
    /\ pc = "init"
    /\ wire = None
    /\ back = None
    /\ epc = "idle"
    /\ etype = "none"
    /\ evar = "none"
    /\ etag = <<>>
    /\ eback = "none"

\* CreateChatCompletion::default()
CallDefault ==
    /\ pc = "init"
    /\ req' = Default
    /\ base' = req'
    /\ last' = [op |-> "default"]
    /\ pc' = "build"
    /\ UNCHANGED <<hist, calls, wire, back, enumVars>>

\* CreateChatCompletion::new(model, messages)
CallNew ==
    /\ pc = "init"
    /\ \E model \in Models, messages \in MessagesSamples :
         /\ req' = New(model, messages)
         /\ last' = [op |-> "new", model |-> model, messages |-> messages]
    /\ base' = req'
    /\ pc' = "build"
    /\ UNCHANGED <<hist, calls, wire, back, enumVars>>

\* One builder call: `op` with argument `arg`, setting `field`, giving r2.
Call(op, field, arg, r2) ==
    /\ pc = "build"
    /\ calls < MaxCalls
    /\ req' = r2
    /\ last' = [op |-> op, field |-> field, arg |-> arg]
    /\ hist' = [hist EXCEPT ![field] = Some(arg)]
    /\ calls' = calls + 1
    /\ UNCHANGED <<base, pc, wire, back, enumVars>>

WithModel ==
    \E v \in Models : Call("with_model", "model", v, with_model(req, v))
WithMessages ==
    \E v \in MessagesSamples :
        Call("with_messages", "messages", v, with_messages(req, v))
WithFrequencePenalty ==
    \E v \in PenaltySamples :
        Call("with_frequence_penalty", "frequency_penalty", v,
             with_frequence_penalty(req, v))
WithLogitBias ==
    \E v \in ValueSamples :
        Call("with_logit_bias", "logit_bias", v, with_logit_bias(req, v))
WithLogprobs ==
    \E v \in BOOLEAN : Call("with_logprobs", "logprobs", v, with_logprobs(req, v))
WithTopLogprobs ==
    \E v \in U8Samples :
        Call("with_top_logprobs", "top_logprobs", v, with_top_logprobs(req, v))
WithMaxTokens ==
    \E v \in U64Samples :
        Call("with_max_tokens", "max_tokens", v, with_max_tokens(req, v))
WithN ==
    \E v \in U32Samples : Call("with_n", "n", v, with_n(req, v))
WithPresencePenalty ==
    \E v \in PenaltySamples :
        Call("with_presence_penalty", "presence_penalty", v,
             with_presence_penalty(req, v))
WithResponseFormat ==
    \E v \in ResponseFormatSamples :
        Call("with_response_format", "response_format", v,
             with_response_format(req, v))
WithSeed ==
    \E v \in SeedSamples : Call("with_seed", "seed", v, with_seed(req, v))
WithServiceTier ==
    \E v \in StringSamples :
        Call("with_service_tier", "service_tier", v, with_service_tier(req, v))
WithStop ==
    \E v \in StringSamples : Call("with_stop", "stop", v, with_stop(req, v))
WithStream ==
    \E v \in BOOLEAN : Call("with_stream", "stream", v, with_stream(req, v))
WithStreamOptions ==
    \E v \in StreamOptionsSamples :
        Call("with_stream_options", "stream_options", v,
             with_stream_options(req, v))
WithTemperature ==
    \E v \in TemperatureSamples :
        Call("with_temperature", "temperature", v, with_temperature(req, v))
WithTopP ==
    \E v \in TopPSamples : Call("with_top_p", "top_p", v, with_top_p(req, v))
WithParallelToolCalls ==
    \E v \in BOOLEAN :
        Call("with_parallel_tool_calls", "parallel_tool_calls", v,
             with_parallel_tool_calls(req, v))
WithUser ==
    \E v \in StringSamples : Call("with_user", "user", v, with_user(req, v))

\* The request is serialized to its JSON body.
Serialize ==
    /\ pc = "build"
    /\ wire' = ToJson(req)
    /\ pc' = "sent"
    /\ UNCHANGED <<req, hist, last, base, calls, back, enumVars>>

\* The JSON body is deserialized into a CreateChatCompletion.
Deserialize ==
    /\ pc = "sent"
    /\ back' = FromJson(wire)
    /\ pc' = "parsed"
    /\ UNCHANGED <<req, hist, last, base, calls, wire, enumVars>>

Next ==
    \/ CallDefault
    \/ CallNew
    \/ WithModel
    \/ WithMessages
    \/ WithFrequencePenalty
    \/ WithLogitBias
    \/ WithLogprobs
    \/ WithTopLogprobs
    \/ WithMaxTokens
    \/ WithN
    \/ WithPresencePenalty
    \/ WithResponseFormat
    \/ WithSeed
    \/ WithServiceTier
    \/ WithStop
    \/ WithStream
    \/ WithStreamOptions
    \/ WithTemperature
    \/ WithTopP
    \/ WithParallelToolCalls
    \/ WithUser
    \/ Serialize
    \/ Deserialize

Spec == Init /\ [][Next]_vars

-----------------------------------------------------------------------------
(* One enum value crossing the wire.                                       *)

UpperCase(name) == [i \in 1..Len(name) |-> ToUpperChar(name[i])]

AllVariants == FinishReasons \cup Roles \cup ResponseKinds

\* Tags a peer may send: every variant name as written, in snake_case, in
\* lower case and in upper snake case, the deprecated function_call finish
\* reason, and the empty string.
TagSamples ==
    UNION { { VariantChars(v), SnakeCase(VariantChars(v)),
              LowerCase(VariantChars(v)),
              UpperCase(SnakeCase(VariantChars(v))) } : v \in AllVariants }
    \cup { <<"f", "u", "n", "c", "t", "i", "o", "n", "_", "c", "a", "l", "l">>, <<>> }

\* A variant of an enum type is serialized to its tag.
EnumSerialize ==
    /\ epc = "idle"
    /\ \E ty \in EnumTypes : \E v \in Variants(ty) :
         /\ etype' = ty
         /\ evar' = v
         /\ etag' = SerializeEnum(ty, v)
    /\ epc' = "tagged"
    /\ UNCHANGED <<eback, builderVars>>

\* A tag arrives from the peer for a field of an enum type.
EnumReceive ==
    /\ epc = "idle"
    /\ \E ty \in EnumTypes : \E tag \in TagSamples :
         /\ etype' = ty
         /\ etag' = tag
    /\ epc' = "tagged"
    /\ UNCHANGED <<evar, eback, builderVars>>

\* The tag is deserialized as the enum type.
EnumDeserialize ==
    /\ epc = "tagged"
    /\ eback' = DeserializeEnum(etype, etag)
    /\ epc' = "decoded"
    /\ UNCHANGED <<etype, evar, etag, builderVars>>

NextEnum ==
    \/ EnumSerialize
    \/ EnumReceive
    \/ EnumDeserialize

SpecEnum == Init /\ [][NextEnum]_vars

-----------------------------------------------------------------------------
(* Properties.                                                             *)

Built == pc # "init"

InRange(o, lo, hi) == IsNone(o) \/ (FLe(lo, o[1]) /\ FLe(o[1], hi))

\* C1: every request value reachable from default() or new() by with_*
\* calls has temperature None or within [0, 2] and top_p None or within
\* [0, 1].
C1_SamplingRange ==
    Built => /\ InRange(req.temperature, Zero, Two)
             /\ InRange(req.top_p, Zero, One)

\* C2: with_temperature(t) leaves temperature present: Some(0.0) for
\* t < 0, Some(2.0) for t > 2, Some(t) for t in [0, 2], whatever the
\* temperature was before.
C2_TemperatureClamp ==
    last.op = "with_temperature" =>
        /\ IsSome(req.temperature)
        /\ FLt(last.arg, Zero) => req.temperature = Some(Zero)
        /\ FGt(last.arg, Two) => req.temperature = Some(Two)
        /\ (FLe(Zero, last.arg) /\ FLe(last.arg, Two)) =>
               req.temperature = Some(last.arg)

\* A second with_temperature call, at the upper boundary, over an earlier
\* temperature.
C2_Witness ==
    /\ last.op = "with_temperature"
    /\ last.arg = Two
    /\ calls = 2
    /\ IsSome(hist.temperature)
    /\ req.temperature = Some(Two)
    /\ \A f \in Fields \ {"temperature"} : IsNone(hist[f])

\* C3: with_top_p(p) leaves top_p present: Some(0.0) for p < 0, Some(1.0)
\* for p > 1, Some(p) for p in [0, 1], whatever top_p was before.
C3_TopPClamp ==
    last.op = "with_top_p" =>
        /\ IsSome(req.top_p)
        /\ FLt(last.arg, Zero) => req.top_p = Some(Zero)
        /\ FGt(last.arg, One) => req.top_p = Some(One)
        /\ (FLe(Zero, last.arg) /\ FLe(last.arg, One)) =>
               req.top_p = Some(last.arg)

\* A second with_top_p call, above the range, over an earlier top_p.
C3_Witness ==
    /\ last.op = "with_top_p"
    /\ last.arg = F(14)
    /\ calls = 2
    /\ req.top_p = Some(One)
    /\ \A f \in Fields \ {"top_p"} : IsNone(hist[f])

\* C4: default() has model Llama38B, no messages, max_tokens Some(1000),
\* stream None and every other optional field None.
C4_DefaultValue ==
    (last.op = "default" /\ calls = 0) =>
        /\ req.model = "Llama38B"
        /\ req.messages = <<>>
        /\ req.max_tokens = Some(1000)
        /\ req.stream = None
        /\ \A f \in OptFields \ {"max_tokens"} : req[f] = None

\* default() has returned and nothing has been called on its value.
C4_Witness ==
    /\ pc = "build"
    /\ last.op = "default"
    /\ calls = 0
    /\ req.max_tokens = Some(1000)

\* C5: in the serialized body every Option field that is None is left
\* out and every field that is set is present under its name, nested
\* StreamOptions.include_usage and Message.name included.
C5_UnsetOmitted ==
    pc \in {"sent", "parsed"} =>
        /\ \A f \in OptFields : IsNone(req[f]) <=> f \notin DOMAIN wire
        /\ {"model", "messages"} \subseteq DOMAIN wire
        /\ IsSome(req.stream_options) =>
              (IsNone(req.stream_options[1].include_usage)
                  <=> "include_usage" \notin DOMAIN wire["stream_options"].v)
        /\ \A i \in 1..Len(req.messages) :
              IsNone(req.messages[i].name)
                  <=> "name" \notin DOMAIN wire["messages"].v[i].v

\* C6: deserializing the serialization of a built request gives back the
\* same value, field by field.
C6_RoundTrip ==
    pc = "parsed" => back = req

\* C7: every builder method other than with_temperature and with_top_p
\* stores its argument verbatim, whatever its value.
C7_StoredVerbatim ==
    /\ last.op \in {"with_model", "with_messages"} => req[last.field] = last.arg
    /\ last.op \in {"with_frequence_penalty", "with_presence_penalty",
                    "with_top_logprobs", "with_n", "with_max_tokens",
                    "with_seed", "with_logit_bias", "with_logprobs",
                    "with_response_format", "with_service_tier", "with_stop",
                    "with_stream", "with_stream_options",
                    "with_parallel_tool_calls", "with_user"}
          => req[last.field] = Some(last.arg)

\* with_top_logprobs(255), above the documented 20, is stored as given.
C7_Witness ==
    /\ last.op = "with_top_logprobs"
    /\ last.arg = 255
    /\ req.top_logprobs = Some(255)

StopTag == <<"s", "t", "o", "p">>
LengthTag == <<"l", "e", "n", "g", "t", "h">>
ContentFilterTag == <<"c", "o", "n", "t", "e", "n", "t", "_", "f", "i", "l", "t", "e", "r">>
ToolCallsTag == <<"t", "o", "o", "l", "_", "c", "a", "l", "l", "s">>
AssistantTag == <<"a", "s", "s", "i", "s", "t", "a", "n", "t">>
SystemTag == <<"s", "y", "s", "t", "e", "m">>
UserTag == <<"u", "s", "e", "r">>
TextTag == <<"t", "e", "x", "t">>
JsonObjectTag == <<"j", "s", "o", "n", "_", "o", "b", "j", "e", "c", "t">>
FunctionCallTag == <<"f", "u", "n", "c", "t", "i", "o", "n", "_", "c", "a", "l", "l">>

DocumentedTags(ty) ==
    CASE ty = "FinishReason" -> {StopTag, LengthTag, ContentFilterTag, ToolCallsTag}
      [] ty = "Role" -> {AssistantTag, SystemTag, UserTag}
      [] ty = "ResponseKind" -> {TextTag, JsonObjectTag}

C9_NewValue ==
    (last.op = "new" /\ calls = 0) =>
        /\ req.model = last.model
        /\ req.messages = last.messages
        /\ req.max_tokens = Some(1000)
        /\ \A f \in OptFields \ {"max_tokens"} : req[f] = None

\* new() was called with a model other than the default and with messages.
C9_Witness ==
    /\ pc = "build"
    /\ last.op = "new"
    /\ calls = 0
    /\ req.model = "Llama370B"
    /\ Len(req.messages) = 2

\* The builder methods, the field each sets and the arguments tried.
Ops ==
    {"with_model", "with_messages", "with_frequence_penalty",
     "with_logit_bias", "with_logprobs", "with_top_logprobs",
     "with_max_tokens", "with_n", "with_presence_penalty",
     "with_response_format", "with_seed", "with_service_tier", "with_stop",
     "with_stream", "with_stream_options", "with_temperature", "with_top_p",
     "with_parallel_tool_calls", "with_user"}

FieldOf(op) ==
    CASE op = "with_model" -> "model"
      [] op = "with_messages" -> "messages"
      [] op = "with_frequence_penalty" -> "frequency_penalty"
      [] op = "with_logit_bias" -> "logit_bias"
      [] op = "with_logprobs" -> "logprobs"
      [] op = "with_top_logprobs" -> "top_logprobs"
      [] op = "with_max_tokens" -> "max_tokens"
      [] op = "with_n" -> "n"
      [] op = "with_presence_penalty" -> "presence_penalty"
      [] op = "with_response_format" -> "response_format"
      [] op = "with_seed" -> "seed"
      [] op = "with_service_tier" -> "service_tier"
      [] op = "with_stop" -> "stop"
      [] op = "with_stream" -> "stream"
      [] op = "with_stream_options" -> "stream_options"
      [] op = "with_temperature" -> "temperature"
      [] op = "with_top_p" -> "top_p"
      [] op = "with_parallel_tool_calls" -> "parallel_tool_calls"
      [] op = "with_user" -> "user"

ArgSamples(op) ==
    CASE op = "with_model" -> Models
      [] op = "with_messages" -> MessagesSamples
      [] op \in {"with_frequence_penalty", "with_presence_penalty"} -> PenaltySamples
      [] op = "with_logit_bias" -> ValueSamples
      [] op \in {"with_logprobs", "with_stream", "with_parallel_tool_calls"} -> BOOLEAN
      [] op = "with_top_logprobs" -> U8Samples
      [] op = "with_max_tokens" -> U64Samples
      [] op = "with_n" -> U32Samples
      [] op = "with_response_format" -> ResponseFormatSamples
      [] op = "with_seed" -> SeedSamples
      [] op \in {"with_service_tier", "with_stop", "with_user"} -> StringSamples
      [] op = "with_stream_options" -> StreamOptionsSamples
      [] op = "with_temperature" -> TemperatureSamples
      [] op = "with_top_p" -> TopPSamples

ApplyCall(r, op, arg) ==
    CASE op = "with_model" -> with_model(r, arg)
      [] op = "with_messages" -> with_messages(r, arg)
      [] op = "with_frequence_penalty" -> with_frequence_penalty(r, arg)
      [] op = "with_logit_bias" -> with_logit_bias(r, arg)
      [] op = "with_logprobs" -> with_logprobs(r, arg)
      [] op = "with_top_logprobs" -> with_top_logprobs(r, arg)
      [] op = "with_max_tokens" -> with_max_tokens(r, arg)
      [] op = "with_n" -> with_n(r, arg)
      [] op = "with_presence_penalty" -> with_presence_penalty(r, arg)
      [] op = "with_response_format" -> with_response_format(r, arg)
      [] op = "with_seed" -> with_seed(r, arg)
      [] op = "with_service_tier" -> with_service_tier(r, arg)
      [] op = "with_stop" -> with_stop(r, arg)
      [] op = "with_stream" -> with_stream(r, arg)
      [] op = "with_stream_options" -> with_stream_options(r, arg)
      [] op = "with_temperature" -> with_temperature(r, arg)
      [] op = "with_top_p" -> with_top_p(r, arg)
      [] op = "with_parallel_tool_calls" -> with_parallel_tool_calls(r, arg)
      [] op = "with_user" -> with_user(r, arg)

\* The nearest value to x within [lo, hi], by the order of f32.
Clamped(x, lo, hi) == IF FLt(x, lo) THEN lo ELSE IF FGt(x, hi) THEN hi ELSE x

\* What field f holds once its setter was last called with a.
Held(f, a) ==
    CASE f \in {"model", "messages"} -> a
      [] f = "temperature" -> Some(Clamped(a, F(0), F(20)))
      [] f = "top_p" -> Some(Clamped(a, F(0), F(10)))
      [] OTHER -> Some(a)

\* Each field holds what its last setter call gave it, or its default.
LastCallWins ==
    (Built /\ base = Default) =>
        \A f \in Fields :
            req[f] = IF IsNone(hist[f]) THEN Default[f] ELSE Held(f, hist[f][1])

BuilderStep == pc = "build" /\ calls' = calls + 1

\* C10: after any chain of with_* calls on default(), each field holds the
\* (clamped) argument of the last call of its own setter, or its default;
\* a call changes only its own field, calls for different fields commute,
\* and no call turns Some back into None.
C10_BuilderFrame ==
    [][ /\ LastCallWins
        /\ LastCallWins'
        /\ BuilderStep =>
             /\ \A f \in Fields \ {last'.field} : req'[f] = req[f]
             /\ \A f \in OptFields : IsSome(req[f]) => IsSome(req'[f])
             /\ calls <= 1 =>
                  \A op \in Ops \ {last'.op} : \A b \in ArgSamples(op) :
                      ApplyCall(req', op, b)
                        = ApplyCall(ApplyCall(req, op, b), last'.op, last'.arg)
      ]_vars

\* On default(), with_stream(true) then with_stream(false): the later call
\* has overwritten the earlier one and nothing else has changed.
C10_Witness ==
    /\ base = Default
    /\ calls = 2
    /\ last.op = "with_stream"
    /\ last.arg = FALSE
    /\ req = [Default EXCEPT !.stream = Some(FALSE)]

====
